---- MODULE Spec2Model ----
(***************************************************************************)
(* Model of data_radar_dolma_wrapper: the text processing functions        *)
(* (processing.py) and the download engine (downloader.py).                *)
(*                                                                         *)
(* Strings are sequences of characters; a character is a TLA+ string       *)
(* naming one code point: "x" (a letter no combining mark composes with),  *)
(* "e", "acute" (U+0301, combining), "eacute" (U+00E9), "NUL" (U+0000),     *)
(* "sp" (U+0020), "nl" (U+000A), "nbsp" (U+00A0).                          *)
(***************************************************************************)
EXTENDS Integers, Sequences, FiniteSets, TLC

VARIABLES
    pc,            \* the position of the call or of run_download
    arg, res,      \* the arguments and the result of a call of a pure function
    cfg,           \* the configuration tree (read-only once the run starts)
    caller,        \* who called process_stream: "direct" or "run_download"
    call,          \* the arguments of the process_stream call in progress
    buffer, shard_id, total, extra_md, masker_cache,   \* its locals
    ret,           \* its return value
    shards,        \* history: the save_records calls it completed
    local_files, s3_objects,                          \* the storage sinks
    ds_idx, lang_idx, times,                          \* run_download's locals
    attempted, outcomes,  \* history: datasets entered, and the streams each finished
    errors         \* history: per exception raised, the dataset in progress

callVars == <<arg, res>>
streamVars == <<call, buffer, shard_id, total, extra_md, masker_cache, ret, shards>>
sinkVars == <<local_files, s3_objects>>
runVars == <<ds_idx, lang_idx, times, attempted, outcomes>>
engineVars == <<cfg, caller, streamVars, sinkVars, runVars, errors>>
vars == <<pc, callVars, engineVars>>

\* ------------------------------------------------------------ bounds
MaxLen == 3
MaxTextLen == 3
MaxSpans == 2
MaxDocs == 3
MaxShardSize == 2
MaxDatasets == 2
MaxElapsed == 0
MaxRunDocs == 2

\* ------------------------------------------------------ generic helpers
Min(a, b) == IF a <= b THEN a ELSE b
Max(a, b) == IF a >= b THEN a ELSE b

SeqsUpTo(S, n) == UNION {[1..k -> S] : k \in 0..n}

\* Python slicing t[a:b] on 0-based offsets, clipped to the string.
Slice(t, a, b) ==
    LET lo == Max(a, 0)
        hi == Min(b, Len(t))
    IN IF hi <= lo THEN <<>> ELSE SubSeq(t, lo + 1, hi)

\* -------------------------------------------------- processing.py: text
Chars == {"x", "e", "acute", "eacute", "NUL", "sp", "nl", "nbsp"}

\* re \s on str patterns: Unicode whitespace.
IsSpace(c) == c \in {"sp", "nl", "nbsp"}

\* Canonical (compat = FALSE) or compatibility decomposition of one code point.
DecomposeChar(c, compat) ==
    IF c = "eacute" THEN <<"e", "acute">>
    ELSE IF compat /\ c = "nbsp" THEN <<"sp">>
    ELSE <<c>>

RECURSIVE Decompose(_, _)
Decompose(t, compat) ==
    IF t = <<>> THEN <<>>
    ELSE DecomposeChar(Head(t), compat) \o Decompose(Tail(t), compat)

\* Canonical composition: a starter directly followed by a combining mark it
\* has a precomposed form with is replaced by that form.
RECURSIVE Compose(_)
Compose(t) ==
    IF Len(t) < 2 THEN t
    ELSE IF t[1] = "e" /\ t[2] = "acute"
         THEN <<"eacute">> \o Compose(Tail(Tail(t)))
         ELSE <<Head(t)>> \o Compose(Tail(t))

\* unicodedata.normalize(form, text)
UnicodeNormalize(form, t) ==
    CASE form = "NFC"  -> Compose(Decompose(t, FALSE))
      [] form = "NFD"  -> Decompose(t, FALSE)
      [] form = "NFKC" -> Compose(Decompose(t, TRUE))
      [] form = "NFKD" -> Decompose(t, TRUE)

\* str.lower() on the unicode_form values of the model
Lower(form) == IF form \in {"none", "None", "NONE"} THEN "none" ELSE form

\* text.replace("\x00", "")
RECURSIVE StripNul(_)
StripNul(t) ==
    IF t = <<>> THEN <<>>
    ELSE IF Head(t) = "NUL" THEN StripNul(Tail(t))
         ELSE <<Head(t)>> \o StripNul(Tail(t))

\* _WS_RE.sub(" ", text): every maximal whitespace run becomes one space
RECURSIVE CollapseRuns(_)
CollapseRuns(t) ==
    IF t = <<>> THEN <<>>
    ELSE IF IsSpace(Head(t))
         THEN IF Len(t) >= 2 /\ IsSpace(t[2])
              THEN CollapseRuns(Tail(t))
              ELSE <<"sp">> \o CollapseRuns(Tail(t))
         ELSE <<Head(t)>> \o CollapseRuns(Tail(t))

\* str.strip()
RECURSIVE LStrip(_)
LStrip(t) == IF t # <<>> /\ IsSpace(Head(t)) THEN LStrip(Tail(t)) ELSE t

RECURSIVE RStrip(_)
RStrip(t) ==
    IF t # <<>> /\ IsSpace(t[Len(t)]) THEN RStrip(SubSeq(t, 1, Len(t) - 1)) ELSE t

Strip(t) == RStrip(LStrip(t))

\* The argument None of normalize_text
NoneText == <<"<None>">>

normalize_text(text, unicode_form, collapse_whitespace) ==
    IF text = NoneText THEN <<>>
    ELSE LET t1 == IF unicode_form # "" /\ Lower(unicode_form) # "none"
                   THEN UnicodeNormalize(unicode_form, text) ELSE text
             t2 == StripNul(t1)
         IN IF collapse_whitespace THEN Strip(CollapseRuns(t2)) ELSE t2

\* ------------------------------------------------- processing.py: spans
\* A span is <<start, end>>, 0-based, end exclusive.
SpanLE(a, b) == a[1] < b[1] \/ (a[1] = b[1] /\ a[2] <= b[2])

\* sorted(spans, key=lambda x: (x[0], x[1])): insertion into a sorted list
RECURSIVE InsertSorted(_, _)
InsertSorted(x, s) ==
    IF s = <<>> THEN <<x>>
    ELSE IF SpanLE(x, Head(s)) THEN <<x>> \o s
         ELSE <<Head(s)>> \o InsertSorted(x, Tail(s))

RECURSIVE Sorted(_)
Sorted(s) == IF s = <<>> THEN <<>> ELSE InsertSorted(Head(s), Sorted(Tail(s)))

\* the test of line 46 that starts a new merged span
StartsNewAdjacentKept(merged, s) == merged = <<>> \/ s >= merged[Len(merged)][2]

StartsNew(merged, s) == merged = <<>> \/ s > merged[Len(merged)][2]

\* one iteration of the loop of _merge_spans
MergeStep(merged, sp) ==
    IF sp[2] <= sp[1] THEN merged
    ELSE IF StartsNew(merged, sp[1]) THEN Append(merged, sp)
    ELSE [merged EXCEPT ![Len(merged)] =
              <<merged[Len(merged)][1], Max(merged[Len(merged)][2], sp[2])>>]

RECURSIVE MergeLoop(_, _)
MergeLoop(merged, rest) ==
    IF rest = <<>> THEN merged
    ELSE MergeLoop(MergeStep(merged, Head(rest)), Tail(rest))

_merge_spans(spans) == MergeLoop(<<>>, Sorted(spans))

\* the loop of mask_spans: out and cur after the merged spans
RECURSIVE MaskLoop(_, _, _, _, _)
MaskLoop(text, merged, mask_token, out, cur) ==
    IF merged = <<>>
    THEN IF cur < Len(text) THEN out \o Slice(text, cur, Len(text)) ELSE out
    ELSE LET s == Head(merged)[1]
             e == Head(merged)[2]
             o1 == IF s > cur THEN out \o Slice(text, cur, s) ELSE out
         IN MaskLoop(text, Tail(merged), mask_token, o1 \o <<mask_token>>, e)

mask_spans(text, spans, mask_token) ==
    LET merged == _merge_spans(spans)
    IN IF merged = <<>> THEN text
       ELSE MaskLoop(text, merged, mask_token, <<>>, 0)

\* ------------------------------------------------------- Python values
\* A value of an upstream record or of the configuration: absent (the key is
\* missing), None, a bool, an int, a str or a dict (a function from keys to
\* values).
Absent == [t |-> "absent", i |-> 0, s |-> <<>>, d |-> <<>>]
NoneV == [t |-> "none", i |-> 0, s |-> <<>>, d |-> <<>>]
BoolV(b) == [t |-> "bool", i |-> IF b THEN 1 ELSE 0, s |-> <<>>, d |-> <<>>]
IntV(n) == [t |-> "int", i |-> n, s |-> <<>>, d |-> <<>>]
StrV(str) == [t |-> "str", i |-> 0, s |-> str, d |-> <<>>]
DictV(dict) == [t |-> "dict", i |-> 0, s |-> <<>>, d |-> dict]

EmptyDict == <<>>

\* {**a, **b}
Merge(a, b) == [k \in DOMAIN a \cup DOMAIN b |-> IF k \in DOMAIN b THEN b[k] ELSE a[k]]

\* d[key] = v
Put(dict, key, v) == [k \in DOMAIN dict \cup {key} |-> IF k = key THEN v ELSE dict[k]]

\* d.get(key) on a dict whose keys are its domain
Lookup(dict, key) == IF key \in DOMAIN dict THEN dict[key] ELSE NoneV

\* dict.get(key): a missing key reads as None
Get(record, key) == IF record[key].t = "absent" THEN NoneV ELSE record[key]

\* dict.get(key, default)
GetDefault(record, key, default) ==
    IF record[key].t = "absent" THEN default ELSE record[key]

\* bool(v)
Truthy(v) ==
    CASE v.t = "none" -> FALSE
      [] v.t \in {"int", "bool"} -> v.i # 0
      [] v.t = "str" -> v.s # <<>>
      [] v.t = "dict" -> v.d # EmptyDict
      [] OTHER -> FALSE

\* a or b
Or(a, b) == IF Truthy(a) THEN a ELSE b

DigitChar(d) == <<"0", "1", "2", "3", "4", "5", "6", "7", "8", "9">>[d + 1]

RECURSIVE NatDigits(_)
NatDigits(n) ==
    IF n < 10 THEN <<DigitChar(n)>> ELSE NatDigits(n \div 10) \o <<DigitChar(n % 10)>>

\* str(v)
PyStr(v) ==
    CASE v.t = "str" -> v.s
      [] v.t = "int" -> IF v.i < 0 THEN <<"-">> \o NatDigits(-v.i) ELSE NatDigits(v.i)
      [] OTHER -> <<"N", "o", "n", "e">>

\* stable_id(*parts): the bytes fed to SHA-1 are each part that is not None
\* followed by a NUL byte; the digest is modelled as the feed itself, tagged
\* (a hash without collisions).
RECURSIVE Sha1Feed(_)
Sha1Feed(parts) ==
    IF parts = <<>> THEN <<>>
    ELSE (IF Head(parts).t = "none" THEN <<>> ELSE Head(parts).s \o <<"NUL">>)
         \o Sha1Feed(Tail(parts))

stable_id(parts) == <<"sha1:">> \o Sha1Feed(parts)

\* ------------------------------------------------ downloader.py: _build_doc
\* the fields of an upstream record the code reads
RecordFields == {"id", "_id", "doc_id", "text", "body", "created", "added", "version"}

\* record.get("id") or record.get("_id") or record.get("doc_id")
UpstreamId(record) == Or(Or(Get(record, "id"), Get(record, "_id")), Get(record, "doc_id"))

\* A document's metadata is a reference to a dict object: a dict of the
\* document's own, or the one dict extra_md of process_stream, which every
\* document built from a non-empty extra_metadata shares (extra_metadata or {}).
OwnDict(dict) == [ref |-> "own", d |-> dict]
SharedDict == [ref |-> "shared", d |-> EmptyDict]

_build_doc(dataset_name, record, text_field, extra_metadata) ==
    LET raw_text == GetDefault(record, text_field, StrV(<<>>))
        text == IF raw_text.t = "str" THEN raw_text.s ELSE PyStr(raw_text)
        upstream_id == UpstreamId(record)
        doc_id == IF upstream_id.t # "none" THEN PyStr(upstream_id)
                  ELSE stable_id(<<StrV(<<dataset_name>>), StrV(text)>>)
    IN [id |-> doc_id,
        text |-> text,
        source |-> dataset_name,
        created |-> GetDefault(record, "created", StrV(<<>>)),
        added |-> GetDefault(record, "added", StrV(<<>>)),
        version |-> Get(record, "version"),
        metadata |-> IF extra_metadata = EmptyDict THEN OwnDict(EmptyDict) ELSE SharedDict,
        \* history, filled in by the loop of process_stream: the document's
        \* position in the stream, the tagger's outcome on it, the error its
        \* PII step caught and its text before the masking attempt
        g |-> <<>>]

\* ----------------------------------------------- downloader.py: apply_limit
PercentBase == 10000
PercentDivisor == 100

\* int(x / y) for ints: truncation toward zero
TruncDiv(x, y) == IF x >= 0 THEN x \div y ELSE -((-x) \div y)

\* itertools.islice(dataset, stop) for stop >= 0, consumed to the end
islice(dataset, stop) ==
    [raised |-> "", items |-> SubSeq(dataset, 1, Min(Len(dataset), stop))]

PercentStopAsRows(percent) == percent

\* int(10000 * percent / 100)
PercentStop(percent) == TruncDiv(PercentBase * percent, PercentDivisor)

\* The branch apply_limit takes: the dataset itself (whole), the stop it hands
\* to islice, or the error raised (islice rejects a negative stop).
LimitStop(limit_cfg, mode) ==
    IF mode = "full" \/ limit_cfg.type = "none"
    THEN [raised |-> "", whole |-> TRUE, stop |-> 0]
    ELSE IF limit_cfg.type = "rows"
         THEN [raised |-> IF limit_cfg.value < 0 THEN "ValueError" ELSE "",
               whole |-> FALSE, stop |-> limit_cfg.value]
    ELSE IF limit_cfg.type = "percent"
         THEN [raised |-> IF PercentStop(limit_cfg.value) < 0 THEN "ValueError" ELSE "",
               whole |-> FALSE, stop |-> PercentStop(limit_cfg.value)]
    ELSE [raised |-> "ValueError", whole |-> FALSE, stop |-> 0]

apply_limit(dataset, limit_cfg, mode) ==
    LET l == LimitStop(limit_cfg, mode)
    IN IF l.raised # "" THEN [raised |-> l.raised, items |-> <<>>]
       ELSE IF l.whole THEN [raised |-> "", items |-> dataset]
       ELSE islice(dataset, l.stop)

\* ------------------------------------- downloader.py: ProcessingPipeline
\* The outcome of the PII tagger on one document is an input of the model:
\* the masker's construction may raise (ctor), the tagger may raise (tag) or
\* return spans; err is the string form of the error.
SetMetadata(doc, xmd, key, v) ==
    IF doc.metadata.ref = "shared"
    THEN [doc |-> doc, extra_md |-> Put(xmd, key, v)]
    ELSE [doc |-> [doc EXCEPT !.metadata.d = Put(doc.metadata.d, key, v)], extra_md |-> xmd]

\* lines 175-177: the except clause of the PII step
PiiFailed(doc, xmd, cache, err) ==
    LET m == SetMetadata(doc, xmd, "dolma_toolkit_error", StrV(<<err>>))
    IN [doc |-> m.doc, extra_md |-> m.extra_md, cache |-> cache, err |-> err]

\* lines 170-174
PiiFound(doc, xmd, spans, mask_token) ==
    LET masked == [doc EXCEPT !.text = mask_spans(doc.text, spans, mask_token.s[1])]
        m1 == SetMetadata(masked, xmd, "pii_masked", BoolV(TRUE))
        m2 == SetMetadata(m1.doc, m1.extra_md, "pii_span_count", IntV(Len(spans)))
    IN [doc |-> m2.doc, extra_md |-> m2.extra_md, cache |-> TRUE, err |-> ""]

\* lines 160-177
PiiStep(doc, xmd, cache, dtcfg, tag) ==
    IF ~cache /\ tag.kind = "ctor" THEN PiiFailed(doc, xmd, FALSE, tag.err)
    ELSE IF tag.kind = "tag" THEN PiiFailed(doc, xmd, TRUE, tag.err)
    ELSE IF tag.spans = <<>> THEN [doc |-> doc, extra_md |-> xmd, cache |-> TRUE, err |-> ""]
    ELSE IF dtcfg.mask_token.t # "str" THEN PiiFailed(doc, xmd, TRUE, "TypeError")
    ELSE PiiFound(doc, xmd, tag.spans, dtcfg.mask_token)

ValidForms == {"NFC", "NFD", "NFKC", "NFKD"}

\* unicodedata.normalize raises ValueError on an unknown form
NormalizeRaises(ncfg) ==
    /\ ncfg.enabled
    /\ ncfg.unicode_form # "" /\ Lower(ncfg.unicode_form) # "none"
    /\ ncfg.unicode_form \notin ValidForms

process_doc(doc, xmd, cache, pcfg, tag) ==
    IF ~pcfg.enabled THEN [doc |-> doc, extra_md |-> xmd, cache |-> cache, err |-> ""]
    ELSE LET d1 == IF pcfg.normalize.enabled
                   THEN [doc EXCEPT !.text = normalize_text(doc.text,
                            pcfg.normalize.unicode_form, pcfg.normalize.collapse_whitespace)]
                   ELSE doc
         IN IF pcfg.dolma_toolkit.enabled
            THEN PiiStep(d1, xmd, cache, pcfg.dolma_toolkit, tag)
            ELSE [doc |-> d1, extra_md |-> xmd, cache |-> cache, err |-> ""]

\* ------------------------------------------ downloader.py: storage sinks
\* f"part-{shard_id:05d}.jsonl"
RECURSIVE ZeroPad(_, _)
ZeroPad(digits, width) ==
    IF Len(digits) >= width THEN digits ELSE ZeroPad(<<"0">> \o digits, width)

ShardWidth == 5

ShardName(id) == <<"part-">> \o ZeroPad(NatDigits(id), ShardWidth) \o <<".jsonl">>

\* what json.dumps sees of a buffered document: its metadata reference read
Materialize(doc, xmd) ==
    [doc EXCEPT !.metadata = IF doc.metadata.ref = "shared" THEN xmd ELSE doc.metadata.d]

MaterializeAll(buf, xmd) == [k \in 1..Len(buf) |-> Materialize(buf[k], xmd)]

\* open(filepath, "w") / put_object: the path's content is replaced
WriteFile(files, path, records) ==
    [q \in DOMAIN files \cup {path} |-> IF q = path THEN records ELSE files[q]]

\* save_records: fail names the sink that raises ("" when none does)
save_records(lf, s3o, records, mode, local_path, s3_key, fail) ==
    LET local_ok == mode \in {"local", "both"} /\ fail # "local"
        local_raised == mode \in {"local", "both"} /\ fail = "local"
        s3_ok == mode \in {"s3", "both"} /\ ~local_raised /\ fail # "s3"
        s3_raised == mode \in {"s3", "both"} /\ ~local_raised /\ fail = "s3"
    IN [local_files |-> IF local_ok THEN WriteFile(lf, local_path, records) ELSE lf,
        s3_objects |-> IF s3_ok THEN WriteFile(s3o, s3_key, records) ELSE s3o,
        raised |-> IF local_raised THEN "OSError"
                   ELSE IF s3_raised THEN "CalledProcessError" ELSE ""]

SaveFailures(mode) ==
    {""} \cup (IF mode \in {"local", "both"} THEN {"local"} ELSE {})
         \cup (IF mode \in {"s3", "both"} THEN {"s3"} ELSE {})

\* -------------------------------------------- downloader.py: process_stream
\* lines 202-206: the value put under the key run
RunSubkeyExistingWins(existing_run, rmd) ==
    IF existing_run.t = "dict" THEN DictV(Merge(rmd, existing_run.d)) ELSE DictV(rmd)

RunSubkey(existing_run, rmd) ==
    IF existing_run.t = "dict" THEN DictV(Merge(existing_run.d, rmd)) ELSE DictV(rmd)

\* lines 196-206
ExtraMetadata(global_md, dataset_md, rmd) ==
    LET merged == Merge(global_md, dataset_md)
    IN IF rmd # EmptyDict
       THEN Put(merged, "run", RunSubkey(Lookup(merged, "run"), rmd))
       ELSE merged

\* line 214 with an off-by-one
ShouldFlushLate(buf, shard_size) == Len(buf) > shard_size

\* line 214
ShouldFlush(buf, shard_size) == Len(buf) >= shard_size

\* except Exception (line 291) catches every error the model raises; an error
\* in a direct call of process_stream reaches its caller.
HandlerCatchesValueErrorOnly(exc) == exc = "ValueError"

HandlerCatches(exc) == TRUE

Raise(exc) ==
    /\ pc' = IF caller = "run_download" /\ HandlerCatches(exc) THEN "except" ELSE "raised"
    /\ errors' = Append(errors, [ds |-> ds_idx])

Goto(label) == pc' = label /\ UNCHANGED errors

LocalPath(subdir, shard) == [root |-> cfg.storage.local_dir, dir |-> subdir, shard |-> shard]
S3Key(subdir, shard) == [root |-> cfg.aws.s3_prefix, dir |-> subdir, shard |-> shard]

\* The upstream records of a stream and the tagger's outcomes on a text.
PlainRecord ==
    [f \in RecordFields |->
        CASE f = "id" -> StrV(<<"a", "b", "c">>)
          [] f = "text" -> StrV(<<"x", "sp", "sp", "e">>)
          [] OTHER -> Absent]

AccentRecord ==
    [f \in RecordFields |->
        CASE f = "text" -> StrV(<<"e", "NUL", "acute">>)
          [] f = "doc_id" -> IntV(7)
          [] OTHER -> Absent]

SpansTag(spans) == [kind |-> "spans", spans |-> spans, err |-> ""]
ErrorTag(kind, err) == [kind |-> kind, spans |-> <<>>, err |-> err]

\* What one iteration reads: the record the stream yields and, when the PII
\* step runs, what the tagger does with its text (a failing construction
\* only while no masker is cached).
DocInputs ==
    IF cfg.processing.enabled /\ cfg.processing.dolma_toolkit.enabled
    THEN {<<PlainRecord, SpansTag(<<>>)>>,
          <<PlainRecord, SpansTag(<< <<0, 1>> >>)>>,
          <<AccentRecord, SpansTag(<< <<1, 2>>, <<0, 1>> >>)>>,
          <<PlainRecord, ErrorTag("tag", "TagErrorA")>>,
          <<AccentRecord, ErrorTag("tag", "TagErrorB")>>}
         \cup (IF masker_cache THEN {}
               ELSE {<<AccentRecord, ErrorTag("ctor", "ImportError")>>})
    ELSE IF cfg.processing.enabled
    THEN {<<PlainRecord, SpansTag(<<>>)>>, <<AccentRecord, SpansTag(<<>>)>>}
    ELSE {<<PlainRecord, SpansTag(<<>>)>>}

\* how many records a stream of the model yields at most
DocBound == IF caller = "direct" THEN MaxDocs ELSE MaxRunDocs

\* lines 193-206: the call's prologue
StreamBegin ==
    /\ pc = "stream_call"
    /\ buffer' = <<>>
    /\ shard_id' = 0
    /\ total' = 0
    /\ masker_cache' = FALSE
    /\ extra_md' = ExtraMetadata(cfg.processing.metadata, call.dataset_md, call.run_md)
    /\ shards' = <<>>
    /\ Goto("stream")
    /\ UNCHANGED <<callVars, cfg, caller, call, ret, sinkVars, runVars>>

\* lines 208-224: one iteration of the loop over ds_iter
StreamRecord ==
    /\ pc = "stream"
    /\ total < DocBound
    /\ call.whole \/ total < call.stop
    /\ \E input \in DocInputs, fail \in SaveFailures(cfg.storage.mode) :
         LET r == input[1]
             tag == input[2]
             built == _build_doc(call.dataset_name, r, call.text_field, extra_md)
             p == process_doc(built, extra_md, masker_cache, cfg.processing, tag)
             pre == IF cfg.processing.enabled /\ cfg.processing.normalize.enabled
                    THEN normalize_text(built.text, cfg.processing.normalize.unicode_form,
                                        cfg.processing.normalize.collapse_whitespace)
                    ELSE built.text
             doc == [p.doc EXCEPT !.g = [n |-> total + 1, tag |-> tag, err |-> p.err,
                                         pre_text |-> pre]]
             buf == Append(buffer, doc)
             shard == ShardName(shard_id)
             sv == save_records(local_files, s3_objects, MaterializeAll(buf, p.extra_md),
                                cfg.storage.mode, LocalPath(call.local_subdir, shard),
                                S3Key(call.s3_subdir, shard), fail)
         IN IF NormalizeRaises(cfg.processing.normalize) /\ cfg.processing.enabled
            THEN /\ Raise("ValueError")
                 /\ UNCHANGED <<buffer, shard_id, total, extra_md, masker_cache, shards,
                                sinkVars>>
            ELSE /\ extra_md' = p.extra_md
                 /\ masker_cache' = p.cache
                 /\ total' = total + 1
                 /\ IF ShouldFlush(buf, call.shard_size)
                    THEN /\ local_files' = sv.local_files
                         /\ s3_objects' = sv.s3_objects
                         /\ IF sv.raised # ""
                            THEN /\ Raise(sv.raised)
                                 /\ buffer' = buf
                                 /\ UNCHANGED <<shard_id, shards>>
                            ELSE /\ buffer' = <<>>
                                 /\ shard_id' = shard_id + 1
                                 /\ shards' = Append(shards,
                                        [name |-> shard,
                                         docs |-> MaterializeAll(buf, p.extra_md)])
                                 /\ Goto("stream")
                    ELSE /\ fail = ""
                         /\ buffer' = buf
                         /\ Goto("stream")
                         /\ UNCHANGED <<shard_id, shards, sinkVars>>
    /\ UNCHANGED <<callVars, cfg, caller, call, ret, runVars>>

\* the iterator raises instead of yielding (a network error of the stream),
\* or yields something _build_doc cannot read
StreamRaises ==
    /\ pc = "stream"
    /\ total < DocBound
    /\ call.whole \/ total < call.stop
    /\ \E exc \in {"ConnectionError", "AttributeError"} : Raise(exc)
    /\ UNCHANGED <<callVars, cfg, caller, streamVars, sinkVars, runVars>>

\* lines 226-236: the iterator is exhausted
StreamEnd ==
    /\ pc = "stream"
    /\ \E fail \in SaveFailures(cfg.storage.mode) :
         LET shard == ShardName(shard_id)
             docs == MaterializeAll(buffer, extra_md)
             sv == save_records(local_files, s3_objects, docs, cfg.storage.mode,
                                LocalPath(call.local_subdir, shard),
                                S3Key(call.s3_subdir, shard), fail)
         IN IF buffer # <<>>
            THEN /\ local_files' = sv.local_files
                 /\ s3_objects' = sv.s3_objects
                 /\ IF sv.raised # ""
                    THEN /\ Raise(sv.raised)
                         /\ UNCHANGED <<shards, ret>>
                    ELSE /\ shards' = Append(shards, [name |-> shard, docs |-> docs])
                         /\ ret' = <<total, shard_id + 1>>
                         /\ Goto("returned")
            ELSE /\ fail = ""
                 /\ ret' = <<total, shard_id + 1>>
                 /\ Goto("returned")
                 /\ UNCHANGED <<shards, sinkVars>>
    /\ UNCHANGED <<callVars, cfg, caller, call, buffer, shard_id, total, extra_md,
                   masker_cache, runVars>>

\* --------------------------------------------- downloader.py: run_download
WrapperVersion == StrV(<<"version">>)

\* _build_run_metadata: run_id and run_started_at are fixed for the run
BuildRunMetadata(config) ==
    LET runcfg == config.processing.run_metadata
        all == [k \in {"run_id", "run_started_at", "config_path", "mode", "storage_mode",
                       "s3_bucket", "s3_prefix", "wrapper_version"} |->
                  CASE k = "run_id" -> StrV(<<"uuid4">>)
                    [] k = "run_started_at" -> StrV(<<"now">>)
                    [] k = "config_path" -> StrV(<<"config.yml">>)
                    [] k = "mode" -> StrV(<<config.mode>>)
                    [] k = "storage_mode" -> StrV(<<config.storage.mode>>)
                    [] k = "s3_bucket" -> StrV(<<config.aws.s3_bucket>>)
                    [] k = "s3_prefix" -> StrV(<<config.aws.s3_prefix>>)
                    [] OTHER -> WrapperVersion]
    IN IF ~runcfg.enabled THEN EmptyDict
       ELSE [k \in {x \in DOMAIN all : runcfg.include = {"*"} \/ x \in runcfg.include} |-> all[k]]

RunShardSize == 10000

CurrentDataset == cfg.datasets[ds_idx]

\* how the dataset in progress has gone so far (history)
NoteStream(subdir, n, written) ==
    [outcomes EXCEPT ![Len(outcomes)].streams =
        Append(@, [subdir |-> subdir, total |-> n, shards |-> written])]

\* lines 262-264 (and 290 when sangraha has no language)
DatasetStart ==
    /\ pc = "ds_loop"
    /\ ds_idx <= Len(cfg.datasets)
    /\ attempted' = Append(attempted, CurrentDataset.name)
    /\ lang_idx' = 1
    /\ IF CurrentDataset.name = "sangraha" /\ CurrentDataset.languages = <<>>
       THEN /\ \E elapsed \in 0..MaxElapsed :
                 times' = Put(times, CurrentDataset.name, elapsed)
            /\ ds_idx' = ds_idx + 1
            /\ Goto("ds_loop")
       ELSE /\ Goto("open")
            /\ UNCHANGED <<times, ds_idx>>
    /\ outcomes' = Append(outcomes, [name |-> CurrentDataset.name, streams |-> <<>>])
    /\ UNCHANGED <<callVars, cfg, caller, streamVars, sinkVars>>

\* lines 266-281 (one language of sangraha) or 283-288: load_dataset,
\* apply_limit, and the call of process_stream
OpenStream ==
    /\ pc = "open"
    /\ \E load \in {"", "ConnectionError"} :
         LET dcfg == CurrentDataset
             sangraha == dcfg.name = "sangraha"
             lang == dcfg.languages[lang_idx]
             limit == LimitStop(dcfg.test_limit, cfg.mode)
         IN IF load # "" THEN Raise(load) /\ UNCHANGED call
            ELSE IF limit.raised # "" THEN Raise(limit.raised) /\ UNCHANGED call
            ELSE /\ call' = [dataset_name |-> dcfg.name,
                             shard_size |-> RunShardSize,
                             text_field |-> dcfg.text_field,
                             dataset_md |-> IF sangraha
                                            THEN Put(dcfg.metadata, "lang", StrV(<<lang>>))
                                            ELSE dcfg.metadata,
                             run_md |-> BuildRunMetadata(cfg),
                             local_subdir |-> IF sangraha THEN <<dcfg.local_path, lang>>
                                              ELSE <<dcfg.local_path>>,
                             s3_subdir |-> IF sangraha THEN <<dcfg.s3_path, lang>>
                                           ELSE <<dcfg.s3_path>>,
                             whole |-> limit.whole, stop |-> limit.stop]
                 /\ Goto("stream_call")
    /\ UNCHANGED <<callVars, cfg, caller, buffer, shard_id, total, extra_md, masker_cache,
                   ret, shards, sinkVars, runVars>>

\* process_stream has returned: the next language, or line 290
StreamReturned ==
    /\ pc = "returned"
    /\ caller = "run_download"
    /\ outcomes' = NoteStream(call.local_subdir, total, Len(shards))
    /\ IF CurrentDataset.name = "sangraha" /\ lang_idx < Len(CurrentDataset.languages)
       THEN /\ lang_idx' = lang_idx + 1
            /\ Goto("open")
            /\ UNCHANGED <<times, ds_idx>>
       ELSE /\ \E elapsed \in 0..MaxElapsed :
                 times' = Put(times, CurrentDataset.name, elapsed)
            /\ ds_idx' = ds_idx + 1
            /\ Goto("ds_loop")
            /\ UNCHANGED lang_idx
    /\ UNCHANGED <<callVars, cfg, caller, streamVars, sinkVars, attempted>>

\* lines 291-292
Except ==
    /\ pc = "except"
    /\ times' = Put(times, CurrentDataset.name, -1)
    /\ ds_idx' = ds_idx + 1
    /\ Goto("ds_loop")
    /\ UNCHANGED <<callVars, cfg, caller, streamVars, sinkVars, lang_idx, attempted, outcomes>>

\* line 294: the loop over the datasets is over
RunReturn ==
    /\ pc = "ds_loop"
    /\ ds_idx > Len(cfg.datasets)
    /\ pc' = "done"
    /\ UNCHANGED <<callVars, engineVars>>

\* -------------------------------------------------- the specifications
IdleCall == arg = <<>> /\ res = <<>>

IdleStream ==
    /\ call = <<>> /\ buffer = <<>> /\ shard_id = 0 /\ total = 0 /\ extra_md = EmptyDict
    /\ masker_cache = FALSE /\ ret = <<>> /\ shards = <<>>

IdleRun ==
    /\ ds_idx = 1 /\ lang_idx = 1 /\ times = EmptyDict /\ attempted = <<>> /\ outcomes = <<>>

IdleEngine ==
    /\ cfg = <<>> /\ caller = "" /\ IdleStream /\ IdleRun /\ errors = <<>>
    /\ local_files = EmptyDict /\ s3_objects = EmptyDict

Normalize(enabled, form) ==
    [enabled |-> enabled, unicode_form |-> form, collapse_whitespace |-> TRUE]

Dolma(enabled, token) == [enabled |-> enabled, mask_token |-> token]

StrToken == StrV(<<"<PII>">>)

\* processing blocks: absent (all defaults), normalization alone, and the PII
\* step with and without normalization and with a mask token that is a
\* string or (a YAML number) is not
StreamProcessing ==
    {[enabled |-> FALSE, normalize |-> Normalize(TRUE, "NFC"), dolma_toolkit |-> Dolma(FALSE, StrToken)],
     [enabled |-> TRUE, normalize |-> Normalize(TRUE, "NFC"), dolma_toolkit |-> Dolma(FALSE, StrToken)],
     [enabled |-> TRUE, normalize |-> Normalize(TRUE, "NFC"), dolma_toolkit |-> Dolma(TRUE, StrToken)],
     [enabled |-> TRUE, normalize |-> Normalize(FALSE, "NFC"), dolma_toolkit |-> Dolma(TRUE, StrToken)],
     [enabled |-> TRUE, normalize |-> Normalize(TRUE, "NFC"), dolma_toolkit |-> Dolma(TRUE, IntV(0))]}

GlobalAB == [k \in {"a", "b"} |-> IntV(1)]
DatasetRunDict ==
    [k \in {"b", "run"} |->
        IF k = "b" THEN IntV(2)
        ELSE DictV([j \in {"run_id", "owner"} |-> StrV(<<"dataset">>)])]
DatasetRunStr == [k \in {"c", "run"} |-> IF k = "c" THEN IntV(3) ELSE StrV(<<"legacy">>)]
RunIdMode == [k \in {"run_id", "mode"} |-> StrV(<<"run">>)]

\* (processing.metadata, dcfg.metadata, run_md) of a call
MetadataCases ==
    {<<EmptyDict, EmptyDict, EmptyDict>>,
     <<GlobalAB, EmptyDict, EmptyDict>>,
     <<EmptyDict, EmptyDict, RunIdMode>>,
     <<GlobalAB, DatasetRunDict, RunIdMode>>,
     <<GlobalAB, DatasetRunDict, EmptyDict>>,
     <<EmptyDict, DatasetRunStr, RunIdMode>>}

StreamConfig(p, gmd, sm, mode, run_enabled, datasets) ==
    [mode |-> mode,
     storage |-> [mode |-> sm, local_dir |-> "data"],
     aws |-> [s3_bucket |-> "bucket", s3_prefix |-> "prefix"],
     processing |-> [enabled |-> p.enabled, normalize |-> p.normalize,
                     dolma_toolkit |-> p.dolma_toolkit, metadata |-> gmd,
                     run_metadata |-> [enabled |-> run_enabled, include |-> {"run_id", "mode"}]],
     datasets |-> datasets]

\* a direct call process_stream(name, stream, shard_size, cfg, dcfg, run_md, ...)
InitStream ==
    /\ pc = "stream_call"
    /\ IdleCall /\ IdleRun
    /\ caller = "direct"
    /\ \E p \in StreamProcessing, md \in MetadataCases, sm \in {"local", "both"},
          n \in 1..MaxShardSize :
         /\ cfg = StreamConfig(p, md[1], sm, "full", FALSE, <<>>)
         /\ call = [dataset_name |-> "wiki", shard_size |-> n, text_field |-> "text",
                    dataset_md |-> md[2], run_md |-> md[3], local_subdir |-> <<"wiki">>,
                    s3_subdir |-> <<"wiki">>, whole |-> TRUE, stop |-> 0]
    /\ buffer = <<>> /\ shard_id = 0 /\ total = 0 /\ extra_md = EmptyDict
    /\ masker_cache = FALSE /\ ret = <<>> /\ shards = <<>>
    /\ local_files = EmptyDict /\ s3_objects = EmptyDict /\ errors = <<>>

NextStream == StreamBegin \/ StreamRecord \/ StreamRaises \/ StreamEnd

SpecStream == InitStream /\ [][NextStream]_vars

\* run_download once the configuration is loaded and the overrides applied
DatasetConfig(name, languages, limit) ==
    [name |-> name, languages |-> languages, local_path |-> name, s3_path |-> name,
     test_limit |-> limit, text_field |-> "text", metadata |-> [k \in {"b"} |-> IntV(2)]]

RunLimits == {[type |-> "rows", value |-> 1], [type |-> "bogus", value |-> 0]}

DatasetConfigs ==
    {DatasetConfig("sangraha", l, lim) : l \in {<<>>, <<"hi", "ta">>}, lim \in RunLimits}
    \cup {DatasetConfig("wiki", <<>>, lim) : lim \in RunLimits}
    \cup {DatasetConfig("news", <<>>, [type |-> "none", value |-> 0])}

RunDatasets ==
    {ds \in SeqsUpTo(DatasetConfigs, MaxDatasets) :
        /\ ds # <<>>
        /\ \A i, j \in 1..Len(ds) : i # j => ds[i].name # ds[j].name}

\* processing absent, or enabled with a unicode_form unicodedata rejects
RunProcessing ==
    {[enabled |-> FALSE, normalize |-> Normalize(TRUE, "NFC"),
      dolma_toolkit |-> Dolma(FALSE, StrV(<<"<PII>">>))],
     [enabled |-> TRUE, normalize |-> Normalize(TRUE, "NFX"),
      dolma_toolkit |-> Dolma(FALSE, StrV(<<"<PII>">>))]}

InitRun ==
    /\ pc = "ds_loop"
    /\ IdleCall /\ IdleStream /\ IdleRun
    /\ caller = "run_download"
    /\ cfg \in {StreamConfig(p, EmptyDict, sm, mode, TRUE, ds) :
                  p \in RunProcessing, sm \in {"s3", "both"}, mode \in {"test", "full"},
                  ds \in RunDatasets}
    /\ local_files = EmptyDict /\ s3_objects = EmptyDict /\ errors = <<>>

NextRun ==
    \/ DatasetStart \/ OpenStream \/ StreamBegin \/ StreamRecord \/ StreamRaises
    \/ StreamEnd \/ StreamReturned \/ Except \/ RunReturn

SpecRun == InitRun /\ [][NextRun]_vars

\* ------------------------------------------- specification: normalize_text
Forms == {"NFC", "NFD", "NFKC", "NFKD", "none", "None", ""}

InitNormalize ==
    /\ IdleEngine
    /\ pc = "normalize_call"
    /\ arg \in [text : SeqsUpTo(Chars, MaxLen), form : Forms, collapse : BOOLEAN]
    /\ res = [once |-> <<>>, twice |-> <<>>]

NormalizeOnce ==
    /\ pc = "normalize_call"
    /\ res' = [res EXCEPT !.once = normalize_text(arg.text, arg.form, arg.collapse)]
    /\ pc' = "normalize_once"
    /\ UNCHANGED <<arg, engineVars>>

NormalizeTwice ==
    /\ pc = "normalize_once"
    /\ res' = [res EXCEPT !.twice = normalize_text(res.once, arg.form, arg.collapse)]
    /\ pc' = "normalize_twice"
    /\ UNCHANGED <<arg, engineVars>>

NextNormalize == NormalizeOnce \/ NormalizeTwice

SpecNormalize == InitNormalize /\ [][NextNormalize]_vars

\* --------------------------------------------- specification: mask_spans
MaskToken == "<PII>"

SpansOver(n) == (0..n) \X (0..n)

InitMask ==
    /\ IdleEngine
    /\ pc = "mask_call"
    /\ \E t \in SeqsUpTo({"x", "e"}, MaxTextLen) :
         \E sp \in SeqsUpTo(SpansOver(Len(t)), MaxSpans) :
            arg = [text |-> t, spans |-> sp]
    /\ res = [merged |-> <<>>, masked |-> <<>>]

MergeCall ==
    /\ pc = "mask_call"
    /\ res' = [res EXCEPT !.merged = _merge_spans(arg.spans)]
    /\ pc' = "merged"
    /\ UNCHANGED <<arg, engineVars>>

MaskCall ==
    /\ pc = "merged"
    /\ res' = [res EXCEPT !.masked = mask_spans(arg.text, arg.spans, MaskToken)]
    /\ pc' = "masked"
    /\ UNCHANGED <<arg, engineVars>>

NextMask == MergeCall \/ MaskCall

SpecMask == InitMask /\ [][NextMask]_vars

\* --------------------------------------------- specification: _build_doc
IdValues == {Absent, NoneV, IntV(0), IntV(7), StrV(<<>>), StrV(<<"a", "b", "c">>)}
TextValues == {Absent, NoneV, IntV(7), StrV(<<>>), StrV(<<"x">>)}

BuildRecords ==
    {[f \in RecordFields |->
        CASE f = "id" -> a
          [] f = "_id" -> b
          [] f = "doc_id" -> c
          [] f = "text" -> t
          [] f = "body" -> StrV(<<"e">>)
          [] f = "created" -> Absent
          [] f = "added" -> StrV(<<"x">>)
          [] OTHER -> IntV(7)] : a \in IdValues, b \in IdValues, c \in IdValues, t \in TextValues}

InitBuild ==
    /\ IdleEngine
    /\ pc = "build_call"
    /\ arg \in [record : BuildRecords, text_field : {"text", "body"}, dataset_name : {"ds"}]
    /\ res = <<>>

BuildCall ==
    /\ pc = "build_call"
    /\ res' = _build_doc(arg.dataset_name, arg.record, arg.text_field, EmptyDict)
    /\ pc' = "built"
    /\ UNCHANGED <<arg, engineVars>>

NextBuild == BuildCall

SpecBuild == InitBuild /\ [][NextBuild]_vars

\* --------------------------------------------- specification: apply_limit
MaxPercent == 2

LimitLens ==
    (0..MaxLen) \cup {PercentDivisor * v + d : v \in 1..MaxPercent, d \in {-1, 0, 1}}

LimitValues == -1..(MaxLen + 1)

InitLimit ==
    /\ IdleEngine
    /\ pc = "limit_call"
    /\ arg \in [dataset : {[i \in 1..n |-> i] : n \in LimitLens},
                limit_cfg : [type : {"none", "rows", "percent", "bogus"}, value : LimitValues],
                mode : {"test", "full"}]
    /\ res = [raised |-> "", items |-> <<>>]

LimitCall ==
    /\ pc = "limit_call"
    /\ res' = apply_limit(arg.dataset, arg.limit_cfg, arg.mode)
    /\ pc' = "limited"
    /\ UNCHANGED <<arg, engineVars>>

NextLimit == LimitCall

SpecLimit == InitLimit /\ [][NextLimit]_vars

\* ---------------------------------------------------------------- claims

\* every document the call has written, in write order
RECURSIVE WrittenDocs(_)
WrittenDocs(written) ==
    IF written = <<>> THEN <<>> ELSE Head(written).docs \o WrittenDocs(Tail(written))

CeilDiv(n, d) == (n + d - 1) \div d

\* part-0000k.jsonl, for k < 10
PartName(k) == <<"part-", "0", "0", "0", "0", DigitChar(k), ".jsonl">>

\* the sinks of the storage mode hold these documents under the shard's name
InSinks(subdir, name, docs) ==
    /\ cfg.storage.mode \in {"local", "both"} =>
         LET path == [root |-> "data", dir |-> subdir, shard |-> name]
         IN path \in DOMAIN local_files /\ local_files[path] = docs
    /\ cfg.storage.mode \in {"s3", "both"} =>
         LET key == [root |-> "prefix", dir |-> subdir, shard |-> name]
         IN key \in DOMAIN s3_objects /\ s3_objects[key] = docs

\* C1: a call of process_stream that returns has written exactly ceil(N/S)
\* shards named part-00000, part-00001, ... in write order; every shard but
\* the last holds S documents, the last N - S*(ceil(N/S)-1), none is empty,
\* and the shards in order hold the processed documents in input order.
C1_Sharding ==
    pc = "returned" =>
        LET N == total
            S == call.shard_size
            K == CeilDiv(N, S)
            all == WrittenDocs(shards)
        IN /\ Len(shards) = K
           /\ \A k \in 1..K :
                /\ shards[k].name = PartName(k - 1)
                /\ Len(shards[k].docs) >= 1
                /\ k < K => Len(shards[k].docs) = S
                /\ k = K => Len(shards[k].docs) = N - S * (K - 1)
                /\ InSinks(call.local_subdir, shards[k].name, shards[k].docs)
           /\ Len(all) = N
           /\ \A i \in 1..N : all[i].g.n = i

\* three documents with shard size two: a full shard and a partial one
C1_Witness ==
    /\ pc = "returned"
    /\ total = 3
    /\ call.shard_size = 2
    /\ Len(shards) = 2
    /\ Len(shards[2].docs) = 1

\* C2: when at least one document was processed, process_stream returns
\* (N, the number of shards it wrote).
C2_ReturnCountsShards ==
    (pc = "returned" /\ total >= 1) => ret = <<total, Len(shards)>>

PiiEnabled == cfg.processing.enabled /\ cfg.processing.dolma_toolkit.enabled

\* C3: with processing and dolma_toolkit enabled, a written document whose
\* tagger returned k >= 1 spans carries pii_masked = true and
\* pii_span_count = k, whatever the configured metadata.
C3_OwnPiiMetadata ==
    \A k \in 1..Len(shards) : \A j \in 1..Len(shards[k].docs) :
        LET d == shards[k].docs[j]
        IN (PiiEnabled /\ d.g.err = "" /\ Len(d.g.tag.spans) >= 1) =>
              /\ Lookup(d.metadata, "pii_masked") = BoolV(TRUE)
              /\ Lookup(d.metadata, "pii_span_count") = IntV(Len(d.g.tag.spans))

\* the same with no global, dataset or run metadata configured: every
\* document then has a metadata dict of its own
C3_OwnPiiMetadataWhenNoneConfigured ==
    (pc # "stream_call" /\ ExtraMetadata(cfg.processing.metadata, call.dataset_md, call.run_md) = EmptyDict)
        => C3_OwnPiiMetadata

\* C7: a document whose PII step failed is written with the text it had
\* before the masking attempt and with the error's string form under
\* dolma_toolkit_error in its metadata.
C7_ErrorInOwnMetadata ==
    \A k \in 1..Len(shards) : \A j \in 1..Len(shards[k].docs) :
        LET d == shards[k].docs[j]
        IN d.g.err # "" =>
              /\ d.text = d.g.pre_text
              /\ Lookup(d.metadata, "dolma_toolkit_error") = StrV(<<d.g.err>>)

C7_ErrorInOwnMetadataWhenNoneConfigured ==
    (pc # "stream_call" /\ ExtraMetadata(cfg.processing.metadata, call.dataset_md, call.run_md) = EmptyDict)
        => C7_ErrorInOwnMetadata

\* the shallow merge of global then dataset metadata
MergedConfigured == Merge(cfg.processing.metadata, call.dataset_md)

RunCase ==
    /\ pc \in {"stream", "returned", "raised"}
    /\ call.run_md # EmptyDict
    /\ Lookup(MergedConfigured, "run").t = "dict"

MetadataIs(md, run_value) ==
    /\ Lookup(md, "run") = run_value
    /\ \A k \in DOMAIN MergedConfigured \ {"run"} : Lookup(md, k) = MergedConfigured[k]

AllMetadataIs(run_value) ==
    /\ MetadataIs(extra_md, run_value)
    /\ \A k \in 1..Len(shards) : \A j \in 1..Len(shards[k].docs) :
          MetadataIs(shards[k].docs[j].metadata, run_value)

\* C9 as stated: with run metadata and a mapping already under the key run,
\* every document's metadata.run merges the two with the keys of the mapping
\* already there winning on conflict, and every other configured key is the
\* merge of global then dataset metadata, dataset keys winning.
C9_ExistingRunKeysWin ==
    RunCase => AllMetadataIs(DictV(Merge(call.run_md, MergedConfigured["run"].d)))

\* C9 as amended: the same, with the keys of the run metadata winning on
\* conflict in metadata.run.
C9_RunMetadataKeysWin ==
    RunCase => AllMetadataIs(DictV(Merge(MergedConfigured["run"].d, call.run_md)))

\* a document was written whose run mapping has a key of both (run_id) and a
\* key of the dataset value alone (owner)
C9_Witness ==
    /\ RunCase
    /\ pc = "returned"
    /\ Len(shards) >= 1
    /\ MergedConfigured["run"].d["run_id"] # call.run_md["run_id"]
    /\ shards[1].docs[1].metadata["run"].d["owner"] = StrV(<<"dataset">>)
    /\ shards[1].docs[1].metadata["run"].d["run_id"] = StrV(<<"run">>)

DatasetNames == [i \in 1..Len(cfg.datasets) |-> cfg.datasets[i].name]

Failed(i) == \E e \in 1..Len(errors) : errors[e].ds = i

StreamWritten(st) ==
    st.total >= 1 =>
        /\ st.shards = 1
        /\ LET key == [root |-> "prefix", dir |-> st.subdir, shard |-> PartName(0)]
           IN key \in DOMAIN s3_objects /\ Len(s3_objects[key]) = st.total
        /\ cfg.storage.mode = "both" =>
             LET path == [root |-> "data", dir |-> st.subdir, shard |-> PartName(0)]
             IN path \in DOMAIN local_files /\ Len(local_files[path]) = st.total

\* C4: in run_download no exception of a dataset's processing aborts the
\* run: the datasets are attempted once each in configuration order, a failing
\* dataset's time is -1, a dataset that did not fail has its shards in the
\* sinks, and the run goes on until run_download returns.
C4_DatasetIsolation ==
    /\ pc # "raised"
    /\ pc # "done" => ENABLED NextRun
    /\ attempted = SubSeq(DatasetNames, 1, Len(attempted))
    /\ pc = "done" =>
         /\ attempted = DatasetNames
         /\ DOMAIN times = {DatasetNames[i] : i \in 1..Len(DatasetNames)}
         /\ \A i \in 1..Len(DatasetNames) :
              IF Failed(i) THEN times[DatasetNames[i]] = -1
              ELSE /\ times[DatasetNames[i]] >= 0
                   /\ \A n \in 1..Len(outcomes[i].streams) :
                        StreamWritten(outcomes[i].streams[n])
                   /\ Len(outcomes[i].streams) =
                        IF DatasetNames[i] = "sangraha" THEN Len(cfg.datasets[i].languages)
                        ELSE 1

\* the first of two datasets failed and the second's shard is in the sinks
C4_Witness ==
    /\ pc = "done"
    /\ Len(cfg.datasets) = 2
    /\ Failed(1) /\ ~Failed(2)
    /\ times[DatasetNames[1]] = -1
    /\ Len(outcomes[2].streams) >= 1
    /\ outcomes[2].streams[1].total >= 1
    /\ StreamWritten(outcomes[2].streams[1])

\* the first field among id, _id, doc_id the record holds
FirstPresent(record) ==
    IF record["id"].t # "absent" THEN record["id"]
    ELSE IF record["_id"].t # "absent" THEN record["_id"]
    ELSE record["doc_id"]

\* C5: the document id is the string form of the first present field among
\* id, _id, doc_id, whatever its value; stable_id(dataset_name, text) only
\* when none of the three is present.
C5_IdFromFirstPresent ==
    pc = "built" =>
        res.id = IF FirstPresent(arg.record).t # "absent"
                 THEN PyStr(FirstPresent(arg.record))
                 ELSE stable_id(<<StrV(<<arg.dataset_name>>), StrV(res.text)>>)

Prefix(dataset, n) == SubSeq(dataset, 1, Min(Len(dataset), n))

\* C6: apply_limit yields a prefix of the stream in order: all of it in full
\* mode or with type none; in test mode the first min(len, value) items for
\* rows and the first min(len, floor(10000*value/100)) for percent (value a
\* non-negative integer); an unrecognized type raises ValueError.
C6_LimitPrefix ==
    pc = "limited" =>
        LET t == arg.limit_cfg.type
            v == arg.limit_cfg.value
        IN /\ (arg.mode = "full" \/ t = "none") =>
                 res = [raised |-> "", items |-> arg.dataset]
           /\ (arg.mode = "test" /\ t = "rows" /\ v >= 0) =>
                 res = [raised |-> "", items |-> Prefix(arg.dataset, v)]
           /\ (arg.mode = "test" /\ t = "percent" /\ v >= 0) =>
                 res = [raised |-> "", items |-> Prefix(arg.dataset, (10000 * v) \div 100)]
           /\ (arg.mode = "test" /\ t \notin {"none", "rows", "percent"}) =>
                 res = [raised |-> "ValueError", items |-> <<>>]

\* a percent limit cut a stream longer than the 10,000-item reference allows
C6_Witness ==
    /\ pc = "limited"
    /\ arg.mode = "test"
    /\ arg.limit_cfg.type = "percent"
    /\ arg.limit_cfg.value = 1
    /\ Len(arg.dataset) > 100
    /\ Len(res.items) = 100

\* C8: normalize_text is idempotent: applying it twice with the same
\* unicode_form and collapse_whitespace gives the result of applying it once.
C8_Idempotent == pc = "normalize_twice" => res.twice = res.once

\* position i lies in a valid span
Covered(spans, i) ==
    \E k \in 1..Len(spans) : spans[k][2] > spans[k][1] /\ spans[k][1] <= i /\ i < spans[k][2]

RECURSIVE ExpectedMask(_, _, _)
ExpectedMask(text, spans, i) ==
    IF i >= Len(text) THEN <<>>
    ELSE (IF ~Covered(spans, i) THEN <<text[i + 1]>>
          ELSE IF i = 0 \/ ~Covered(spans, i - 1) THEN <<MaskToken>>
          ELSE <<>>) \o ExpectedMask(text, spans, i + 1)

C10_MergeOk ==
    pc \in {"merged", "masked"} =>
        /\ \A k \in 1..Len(res.merged) : res.merged[k][2] > res.merged[k][1]
        /\ \A k \in 2..Len(res.merged) : res.merged[k][1] > res.merged[k - 1][2]
        /\ \A i \in 0..Len(arg.text) : Covered(res.merged, i) <=> Covered(arg.spans, i)

C10_MaskOk ==
    pc = "masked" =>
        /\ res.masked = ExpectedMask(arg.text, arg.spans, 0)
        /\ (\A i \in 0..Len(arg.text) : ~Covered(arg.spans, i)) => res.masked = arg.text

\* C10: _merge_spans returns spans sorted by start, each start strictly
\* greater than the previous end, covering exactly the positions the valid
\* input spans cover; mask_spans replaces each maximal covered run by one
\* mask token, keeps every uncovered character in order, and returns the text
\* unchanged when no valid span remains.
C10_MergeAndMask == C10_MergeOk /\ C10_MaskOk

\* two adjacent valid spans were merged into one and masked by one token
C10_Witness ==
    /\ pc = "masked"
    /\ Len(arg.spans) = 2
    /\ Len(res.merged) = 1
    /\ arg.spans[1][2] = arg.spans[2][1]
    /\ arg.spans[1][2] > arg.spans[1][1]
    /\ arg.spans[2][2] > arg.spans[2][1]
    /\ Len(res.masked) < Len(arg.text)
====
